---- MODULE Spec2Model ----
(***************************************************************************)
(* Model of mergeStrings (src/src/utils.js): tokenized diff of every       *)
(* string against the first one, anchor offsets, anchor / varying ranges,  *)
(* per-string variants and the composed template.                          *)
(*                                                                         *)
(* A string is a sequence of one-character strings.  A JavaScript          *)
(* `undefined` read from an array is the value Undefined; a TypeError      *)
(* raised by reading a property of undefined is the outcome "TypeError".   *)
(***************************************************************************)
EXTENDS Integers, Sequences, FiniteSets, TLC

\* ------------------------------------------------------------------ bounds
MaxLen == 2
MaxStrings == 3

\* Characters the bounded inputs are built from.
Alphabet == {"a", " "}

\* ------------------------------------------------------------- characters
\* UTF-16 code units of the characters that occur in the inputs and in the
\* rendered brackets; Array.prototype.sort compares strings by code unit.
CharCode == [c \in {" ", ",", "-", "1", "2", "E", "X", "a", "b", "c", "d", "e",
                    "h", "i", "l", "n", "o", "r", "s", "t", "u", "{", "}"} |->
    CASE c = " " -> 32 [] c = "," -> 44 [] c = "-" -> 45 [] c = "1" -> 49
      [] c = "2" -> 50 [] c = "E" -> 69 [] c = "X" -> 88 [] c = "a" -> 97
      [] c = "b" -> 98 [] c = "c" -> 99 [] c = "d" -> 100 [] c = "e" -> 101
      [] c = "h" -> 104 [] c = "i" -> 105 [] c = "l" -> 108 [] c = "n" -> 110
      [] c = "o" -> 111 [] c = "r" -> 114 [] c = "s" -> 115 [] c = "t" -> 116
      [] c = "u" -> 117 [] c = "{" -> 123 [] c = "}" -> 125]

\* The character class [a-z0-9-] under the i flag.
IsWordChar(c) ==
    \/ CharCode[c] = 45
    \/ CharCode[c] >= 48 /\ CharCode[c] <= 57
    \/ CharCode[c] >= 65 /\ CharCode[c] <= 90
    \/ CharCode[c] >= 97 /\ CharCode[c] <= 122

\* ---------------------------------------------------------------- helpers
RECURSIVE Flatten(_)
Flatten(ss) == IF ss = <<>> THEN <<>> ELSE Head(ss) \o Flatten(Tail(ss))

Min(a, b) == IF a < b THEN a ELSE b
Max(a, b) == IF a > b THEN a ELSE b

\* ---------------------------------------------------------------- tokenizer
\* Length of the maximal run of one character class starting at position i.
RECURSIVE RunLength(_, _)
RunLength(string, i) ==
    IF i < Len(string) /\ IsWordChar(string[i + 1]) = IsWordChar(string[i])
    THEN 1 + RunLength(string, i + 1)
    ELSE 1

\* string.matchAll(/[a-z0-9-]+|[^a-z0-9-]+/gi): the maximal runs, in order.
RECURSIVE segmentFrom(_, _)
segmentFrom(string, i) ==
    IF i > Len(string) THEN <<>>
    ELSE LET n == RunLength(string, i)
         IN  <<SubSeq(string, i, i + n - 1)>> \o segmentFrom(string, i + n)

\* A tokenizer that makes every character a token of its own.
segmentPerCharacter(string) == [i \in 1 .. Len(string) |-> <<string[i]>>]

segmentString(string) == segmentFrom(string, 1)

\* ------------------------------------------------------------ jsdiff (Myers)
\* jsdiff.diffArrays(oldArr, newArr), the Myers search of the diff package:
\* positions are the index of the last consumed token (0-based, -1 before the
\* first); a path is the position in the old array and the list of components
\* built so far.  Of two paths that reach a diagonal, the one further along
\* the old array is kept, and the removal on a tie.
NoPath == [defined |-> FALSE, oldPos |-> -1, comps |-> <<>>]

addToPath(path, added, removed, oldPosInc) ==
    LET n == Len(path.comps)
    IN  IF n > 0 /\ path.comps[n].added = added /\ path.comps[n].removed = removed
        THEN [defined |-> TRUE, oldPos |-> path.oldPos + oldPosInc,
              comps |-> [path.comps EXCEPT ![n].count = @ + 1]]
        ELSE [defined |-> TRUE, oldPos |-> path.oldPos + oldPosInc,
              comps |-> Append(path.comps,
                               [count |-> 1, added |-> added, removed |-> removed])]

RECURSIVE commonCount(_, _, _, _)
commonCount(newArr, oldArr, oldPos, newPos) ==
    IF /\ newPos + 1 < Len(newArr)
       /\ oldPos + 1 < Len(oldArr)
       /\ oldArr[oldPos + 2] = newArr[newPos + 2]
    THEN 1 + commonCount(newArr, oldArr, oldPos + 1, newPos + 1)
    ELSE 0

\* Follows the diagonal as far as the tokens are equal.
extractCommon(basePath, newArr, oldArr, diagonalPath) ==
    LET n == commonCount(newArr, oldArr, basePath.oldPos,
                         basePath.oldPos - diagonalPath)
    IN  [defined |-> TRUE, oldPos |-> basePath.oldPos + n,
         comps |-> IF n > 0
                   THEN Append(basePath.comps,
                               [count |-> n, added |-> FALSE, removed |-> FALSE])
                   ELSE basePath.comps]

\* The values of the components: tokens of the new array for added and
\* unchanged components, of the old array for removed ones.
RECURSIVE buildValues(_, _, _, _, _)
buildValues(comps, newArr, oldArr, newPos, oldPos) ==
    IF comps = <<>> THEN <<>>
    ELSE LET c == Head(comps)
         IN  IF ~c.removed
             THEN <<[added |-> c.added, removed |-> FALSE,
                     value |-> SubSeq(newArr, newPos + 1, newPos + c.count)]>>
                  \o buildValues(Tail(comps), newArr, oldArr, newPos + c.count,
                                 IF c.added THEN oldPos ELSE oldPos + c.count)
             ELSE <<[added |-> FALSE, removed |-> TRUE,
                     value |-> SubSeq(oldArr, oldPos + 1, oldPos + c.count)]>>
                  \o buildValues(Tail(comps), newArr, oldArr, newPos,
                                 oldPos + c.count)

\* One pass of execEditLength over the diagonals from diagonalPath on.
\* st = [done, comps, bestPath, minD, maxD].
RECURSIVE diagonalLoop(_, _, _, _, _)
diagonalLoop(newArr, oldArr, editLength, diagonalPath, st) ==
    IF st.done \/ diagonalPath > Min(st.maxD, editLength) THEN st
    ELSE
    LET removePath == st.bestPath[diagonalPath - 1]
        addPath    == st.bestPath[diagonalPath + 1]
        cleared    == IF removePath.defined
                      THEN [st.bestPath EXCEPT ![diagonalPath - 1] = NoPath]
                      ELSE st.bestPath
        addPathNewPos == addPath.oldPos - diagonalPath
        canAdd     == addPath.defined /\ 0 <= addPathNewPos
                                      /\ addPathNewPos < Len(newArr)
        canRemove  == removePath.defined /\ removePath.oldPos + 1 < Len(oldArr)
    IN  IF ~canAdd /\ ~canRemove
        THEN diagonalLoop(newArr, oldArr, editLength, diagonalPath + 2,
                 [st EXCEPT !.bestPath = [cleared EXCEPT ![diagonalPath] = NoPath]])
        ELSE
        LET branched == IF ~canRemove \/ (canAdd /\ removePath.oldPos < addPath.oldPos)
                        THEN addToPath(addPath, TRUE, FALSE, 0)
                        ELSE addToPath(removePath, FALSE, TRUE, 1)
            basePath == extractCommon(branched, newArr, oldArr, diagonalPath)
            newPos   == basePath.oldPos - diagonalPath
        IN  IF basePath.oldPos + 1 >= Len(oldArr) /\ newPos + 1 >= Len(newArr)
            THEN [st EXCEPT !.done = TRUE, !.comps = basePath.comps]
            ELSE diagonalLoop(newArr, oldArr, editLength, diagonalPath + 2,
                   [st EXCEPT
                      !.bestPath = [cleared EXCEPT ![diagonalPath] = basePath],
                      !.maxD = IF basePath.oldPos + 1 >= Len(oldArr)
                               THEN Min(@, diagonalPath - 1) ELSE @,
                      !.minD = IF newPos + 1 >= Len(newArr)
                               THEN Max(@, diagonalPath + 1) ELSE @])

RECURSIVE execEditLength(_, _, _, _)
execEditLength(newArr, oldArr, editLength, st) ==
    IF st.done \/ editLength > Len(newArr) + Len(oldArr) THEN st
    ELSE execEditLength(newArr, oldArr, editLength + 1,
             diagonalLoop(newArr, oldArr, editLength,
                          Max(st.minD, -editLength), st))

diffArrays(oldArr, newArr) ==
    LET maxEditLength == Len(newArr) + Len(oldArr)
        seed == extractCommon([defined |-> TRUE, oldPos |-> -1, comps |-> <<>>],
                              newArr, oldArr, 0)
        st0  == [done |-> FALSE, comps |-> <<>>,
                 bestPath |-> [d \in -(maxEditLength + 1) .. (maxEditLength + 1) |->
                                  IF d = 0 THEN seed ELSE NoPath],
                 minD |-> -(maxEditLength + 1), maxD |-> maxEditLength + 1]
        comps == IF seed.oldPos + 1 >= Len(oldArr) /\ seed.oldPos + 1 >= Len(newArr)
                 THEN seed.comps
                 ELSE execEditLength(newArr, oldArr, 1, st0).comps
    IN  buildValues(comps, newArr, oldArr, 0, 0)

\* A diff taken in the wrong direction, from the candidate to the reference.
diffSegmentedReversed(left, right) ==
    LET d == diffArrays(segmentString(right), segmentString(left))
    IN  [k \in 1 .. Len(d) |-> [added |-> d[k].added, removed |-> d[k].removed,
                                value |-> Flatten(d[k].value)]]

\* diffArrays over the tokens, each component's tokens joined to characters.
diffSegmented(left, right) ==
    LET d == diffArrays(segmentString(left), segmentString(right))
    IN  [k \in 1 .. Len(d) |-> [added |-> d[k].added, removed |-> d[k].removed,
                                value |-> Flatten(d[k].value)]]

\* ------------------------------------------------------------ anchor finder
\* The walk of one diff over the offsets of strings[0]: the offsets left
\* unchanged and the final value of ptr.
RECURSIVE unchangedWalk(_, _, _)
unchangedWalk(diff, ptr, unchanged) ==
    IF diff = <<>> THEN [ptr |-> ptr, unchanged |-> unchanged]
    ELSE LET edit == Head(diff)
             n    == Len(edit.value)
         IN  IF ~edit.added
             THEN unchangedWalk(Tail(diff), ptr + n,
                      IF ~edit.removed
                      THEN unchanged \cup (ptr .. ptr + n - 1)
                      ELSE unchanged)
             ELSE unchangedWalk(Tail(diff), ptr, unchanged)

unchangedOf(diff) == unchangedWalk(diff, 0, {})

\* ptr !== strings[0].length for one of the diffs.
coverageFails(strs, ds) ==
    \E k \in 1 .. Len(ds) : unchangedOf(ds[k]).ptr # Len(strs[1])

RECURSIVE intersectFrom(_, _, _)
intersectFrom(sets, k, acc) ==
    IF k > Len(sets) THEN acc
    ELSE intersectFrom(sets, k + 1, acc \cap sets[k])

\* unchangedSets[0] intersected with every set in turn.
unchangedCommonOf(sets) == intersectFrom(sets, 1, sets[1])

\* -------------------------------------------------------- range partitioner
\* The scan of ptr over 0 .. length that opens and closes the anchor ranges.
RECURSIVE rangeScan(_, _, _, _, _, _)
rangeScan(common, length, ptr, rangeActive, rangeStart, ranges) ==
    IF ptr >= length + 1 THEN ranges
    ELSE IF ptr \in common /\ ~rangeActive
         THEN rangeScan(common, length, ptr + 1, TRUE, ptr, ranges)
    ELSE IF ptr \notin common /\ rangeActive
         THEN rangeScan(common, length, ptr + 1, FALSE, rangeStart,
                        Append(ranges, [start |-> rangeStart, end |-> ptr]))
    ELSE rangeScan(common, length, ptr + 1, rangeActive, rangeStart, ranges)

unchangedRangesOf(common, length) == rangeScan(common, length, 0, FALSE, -1, <<>>)

RECURSIVE gapsFrom(_, _)
gapsFrom(augmented, i) ==
    IF i > Len(augmented) - 1 THEN <<>>
    ELSE (IF augmented[i].end # augmented[i + 1].start
          THEN <<[start |-> augmented[i].end, end |-> augmented[i + 1].start]>>
          ELSE <<>>)
         \o gapsFrom(augmented, i + 1)

\* The gaps between the anchor ranges alone, without the two fake ranges.
varyingRangesWithoutFakes(ranges, length) == gapsFrom(ranges, 1)

\* The gaps between the anchor ranges, with a fake range before the string
\* and one after it.
varyingRangesOf(ranges, length) ==
    gapsFrom(<<[start |-> -1, end |-> 0]>> \o ranges
             \o <<[start |-> length, end |-> length + 1]>>, 1)

\* -------------------------------------------------------- variant extractor
\* The characters a diff keeps or adds, each tagged with the value of ptr.
RECURSIVE charsWalk(_, _)
charsWalk(diff, ptr) ==
    IF diff = <<>> THEN <<>>
    ELSE LET edit == Head(diff)
             n    == Len(edit.value)
         IN  IF edit.added
             THEN [i \in 1 .. n |-> [ptr |-> ptr, value |-> edit.value[i],
                                     countAdjacent |-> TRUE]]
                  \o charsWalk(Tail(diff), ptr)
             ELSE (IF ~edit.removed
                   THEN [i \in 1 .. n |-> [ptr |-> ptr + i - 1, value |-> edit.value[i],
                                           countAdjacent |-> FALSE]]
                   ELSE <<>>)
                  \o charsWalk(Tail(diff), ptr + n)

charsOf(diff) == charsWalk(diff, 0)

\* while (chars[idx].ptr < range.start): idx is 0-based, reading chars[idx]
\* past the end of chars is a TypeError.
RECURSIVE skipLoop(_, _, _)
skipLoop(chars, range, idx) ==
    IF idx >= Len(chars) THEN [threw |-> TRUE, done |-> FALSE, idx |-> idx]
    ELSE IF chars[idx + 1].ptr < range.start
         THEN IF idx + 1 >= Len(chars)
              THEN [threw |-> FALSE, done |-> TRUE, idx |-> idx + 1]
              ELSE skipLoop(chars, range, idx + 1)
         ELSE [threw |-> FALSE, done |-> FALSE, idx |-> idx]

\* while (chars[idx].ptr <= range.end)
RECURSIVE collectLoop(_, _, _, _)
collectLoop(chars, range, idx, part) ==
    IF idx >= Len(chars)
    THEN [threw |-> TRUE, done |-> FALSE, idx |-> idx, part |-> part]
    ELSE IF chars[idx + 1].ptr <= range.end
         THEN LET c     == chars[idx + 1]
                  part2 == IF c.ptr < range.end \/ c.countAdjacent
                           THEN Append(part, c.value) ELSE part
              IN  IF idx + 1 >= Len(chars)
                  THEN [threw |-> FALSE, done |-> TRUE, idx |-> idx + 1, part |-> part2]
                  ELSE collectLoop(chars, range, idx + 1, part2)
         ELSE [threw |-> FALSE, done |-> FALSE, idx |-> idx, part |-> part]

\* for (const range of varyingRanges), from the r-th range on.
RECURSIVE partsLoop(_, _, _, _, _)
partsLoop(chars, ranges, r, idx, parts) ==
    IF r > Len(ranges) THEN [threw |-> FALSE, parts |-> parts]
    ELSE IF idx >= Len(chars) THEN [threw |-> TRUE, parts |-> parts]
    ELSE IF chars[idx + 1].ptr > ranges[r].end
         THEN partsLoop(chars, ranges, r + 1, idx, parts)
    ELSE LET s == skipLoop(chars, ranges[r], idx)
         IN  IF s.threw THEN [threw |-> TRUE, parts |-> parts]
             ELSE IF s.done THEN [threw |-> FALSE, parts |-> parts]
             ELSE LET c == collectLoop(chars, ranges[r], s.idx, <<>>)
                  IN  IF c.threw THEN [threw |-> TRUE, parts |-> parts]
                      ELSE IF c.done
                           THEN [threw |-> FALSE, parts |-> Append(parts, c.part)]
                           ELSE partsLoop(chars, ranges, r + 1, c.idx,
                                          Append(parts, c.part))

varyingPartsOf(diff, ranges) == partsLoop(charsOf(diff), ranges, 1, 0, <<>>)

\* The variant lists of the diffs up to the first one that throws.
RECURSIVE varyingListsFrom(_, _, _, _)
varyingListsFrom(ds, ranges, k, lists) ==
    IF k > Len(ds) THEN [threw |-> FALSE, lists |-> lists]
    ELSE LET p == varyingPartsOf(ds[k], ranges)
         IN  IF p.threw THEN [threw |-> TRUE, lists |-> lists]
             ELSE varyingListsFrom(ds, ranges, k + 1, Append(lists, p.parts))

varyingListsOf(ds, ranges) == varyingListsFrom(ds, ranges, 1, <<>>)

\* ------------------------------------------------------------------ composer
\* What reading list[varyingIdx] past the end of list gives.
Undefined == <<"undefined">>

\* Comparison of two strings by code unit, a proper prefix first.
RECURSIVE StrLess(_, _)
StrLess(a, b) ==
    IF b = <<>> THEN FALSE
    ELSE IF a = <<>> THEN TRUE
    ELSE IF Head(a) # Head(b) THEN CharCode[Head(a)] < CharCode[Head(b)]
    ELSE StrLess(Tail(a), Tail(b))

\* A comparison in descending order.
sortBeforeDescending(a, b) ==
    IF a = Undefined THEN FALSE
    ELSE IF b = Undefined THEN TRUE
    ELSE StrLess(b, a)

\* The order of Array.prototype.sort(): undefined after every string.
sortBefore(a, b) ==
    IF a = Undefined THEN FALSE
    ELSE IF b = Undefined THEN TRUE
    ELSE StrLess(a, b)

RECURSIVE sortInsert(_, _)
sortInsert(x, sorted) ==
    IF sorted = <<>> THEN <<x>>
    ELSE IF sortBefore(x, Head(sorted)) THEN <<x>> \o sorted
    ELSE <<Head(sorted)>> \o sortInsert(x, Tail(sorted))

\* The variants left in the order in which the set received them.
sortVariantsSkipped(variants) == variants

RECURSIVE sortVariants(_)
sortVariants(variants) ==
    IF variants = <<>> THEN <<>>
    ELSE sortInsert(Head(variants), sortVariants(Tail(variants)))

\* list[varyingIdx], varyingIdx counted from 0.
variantAt(list, varyingIdx) ==
    IF varyingIdx + 1 <= Len(list) THEN list[varyingIdx + 1] ELSE Undefined

\* new Set() filled with list[varyingIdx] of every list, in insertion order.
RECURSIVE variantSetFrom(_, _, _, _)
variantSetFrom(lists, varyingIdx, k, variants) ==
    IF k > Len(lists) THEN variants
    ELSE LET v == variantAt(lists[k], varyingIdx)
         IN  variantSetFrom(lists, varyingIdx, k + 1,
                 IF \E i \in 1 .. Len(variants) : variants[i] = v
                 THEN variants ELSE Append(variants, v))

variantsOf(lists, varyingIdx) == variantSetFrom(lists, varyingIdx, 1, <<>>)

\* Array.prototype.join(", "): undefined is rendered as the empty string.
RECURSIVE joinVariants(_)
joinVariants(variants) ==
    IF variants = <<>> THEN <<>>
    ELSE (IF Head(variants) = Undefined THEN <<>> ELSE Head(variants))
         \o (IF Len(variants) > 1 THEN <<",", " ">> ELSE <<>>)
         \o joinVariants(Tail(variants))

bracketOf(lists, varyingIdx) ==
    <<"{">> \o joinVariants(sortVariants(variantsOf(lists, varyingIdx))) \o <<"}">>

\* The while loop that alternates between anchor text and brackets; the
\* indices count from 0.
RECURSIVE composeLoop(_, _, _, _, _, _, _, _)
composeLoop(first, uRanges, vRanges, lists, onVarying, varyingIdx, unchangedIdx, acc) ==
    IF onVarying
    THEN IF varyingIdx < Len(vRanges)
         THEN composeLoop(first, uRanges, vRanges, lists, FALSE, varyingIdx + 1,
                          unchangedIdx, Append(acc, bracketOf(lists, varyingIdx)))
         ELSE acc
    ELSE IF unchangedIdx < Len(uRanges)
         THEN LET range == uRanges[unchangedIdx + 1]
              IN  composeLoop(first, uRanges, vRanges, lists, TRUE, varyingIdx,
                              unchangedIdx + 1,
                              Append(acc, SubSeq(first, range.start + 1, range.end)))
         ELSE acc

\* let onVarying = varyingRanges[0].start === 0 throws on an empty list.
composeOf(first, uRanges, vRanges, lists) ==
    IF vRanges = <<>> THEN [threw |-> TRUE, combined |-> <<>>]
    ELSE [threw |-> FALSE,
          combined |-> composeLoop(first, uRanges, vRanges, lists,
                                   vRanges[1].start = 0, 0, 0, <<>>)]

\* ------------------------------------------------------------ mergeStrings
\* An empty-input test that never holds.
isEmptyInputNever(strs) == Len(strs) < 0

\* A single-string test that compares with the wrong length.
isSingleWrongLength(strs) == Len(strs) = 0

isEmptyInput(strs) == Len(strs) = 0

isSingle(strs) == Len(strs) = 1

diffsOf(strs) == [k \in 1 .. Len(strs) |-> diffSegmented(strs[1], strs[k])]

unchangedSetsOf(ds) == [k \in 1 .. Len(ds) |-> unchangedOf(ds[k]).unchanged]

NoValue == <<"no value">>

\* The whole call as a function of its argument: how it ends, what it
\* returns, and the ranges it computed on the way.
mergeStrings(strs) ==
    IF isEmptyInput(strs)
    THEN [outcome |-> "EmptyInput", value |-> NoValue,
          unchangedRanges |-> <<>>, varyingRanges |-> <<>>]
    ELSE IF isSingle(strs)
    THEN [outcome |-> "returned", value |-> strs[1],
          unchangedRanges |-> <<>>, varyingRanges |-> <<>>]
    ELSE
    LET ds == diffsOf(strs)
    IN  IF coverageFails(strs, ds)
        THEN [outcome |-> "DiffCoverage", value |-> NoValue,
              unchangedRanges |-> <<>>, varyingRanges |-> <<>>]
        ELSE
        LET uRanges == unchangedRangesOf(unchangedCommonOf(unchangedSetsOf(ds)),
                                         Len(strs[1]))
            vRanges == varyingRangesOf(uRanges, Len(strs[1]))
            vl      == varyingListsOf(ds, vRanges)
            c       == composeOf(strs[1], uRanges, vRanges, vl.lists)
        IN  IF vl.threw \/ c.threw
            THEN [outcome |-> "TypeError", value |-> NoValue,
                  unchangedRanges |-> uRanges, varyingRanges |-> vRanges]
            ELSE [outcome |-> "returned", value |-> Flatten(c.combined),
                  unchangedRanges |-> uRanges, varyingRanges |-> vRanges]

\* ------------------------------------------------------------------ inputs
StringsUpTo(n) == UNION {[1 .. k -> Alphabet] : k \in 0 .. n}

BoundedInputs == UNION {[1 .. k -> StringsUpTo(MaxLen)] : k \in 0 .. MaxStrings}

ErrorOnHost1 == <<"E","r","r","o","r"," ","o","n"," ","h","o","s","t","-","1">>
ErrorOnHost2 == <<"E","r","r","o","r"," ","o","n"," ","h","o","s","t","-","2">>
XIsRed  == <<"X"," ","i","s"," ","r","e","d">>
XIsBlue == <<"X"," ","i","s"," ","b","l","u","e">>

\* The inputs of the documented examples.
ExampleInputs ==
    { <<ErrorOnHost1, ErrorOnHost2>>,
      <<ErrorOnHost2, ErrorOnHost1>>,
      <<XIsRed, XIsBlue, XIsRed>>,
      <<XIsBlue, XIsRed, XIsRed>>,
      << <<"a","b","c">>, <<"a","b","d">> >>,
      << <<"a"," ","b"," ","c">>, <<"a"," ","d"," ","c">>, <<"a"," ","e"," ","c">> >>,
      << <<"a"," ","b"," ","c">>, <<"a"," ","c">>, <<"a"," ","b"," ","c"," ","d">> >>,
      << <<" ","a">>, <<"a"," ","a">>, <<" ","a","a">> >>,
      << <<"a"," ","b">>, <<"a"," ">> >> }

Inputs == BoundedInputs \cup ExampleInputs

\* ----------------------------------------------------------------- the call
VARIABLES
    strings,          \* the argument of the call
    pc,               \* where the call is
    diffs,            \* diffs
    unchangedSets,    \* unchangedSets
    unchangedRanges,  \* unchangedRanges
    varyingRanges,    \* varyingRanges
    varyingLists,     \* varyingLists
    combined,         \* combined
    result,           \* the returned string, NoValue before the return
    error,            \* the error thrown, "none" while there is none
    rpc,              \* where postAlerts is, "none" outside a request
    responses         \* the responses sent on res, in order

vars == <<strings, pc, diffs, unchangedSets, unchangedRanges, varyingRanges,
          varyingLists, combined, result, error, rpc, responses>>

Init ==
    /\ strings \in Inputs
    /\ pc = "start"
    /\ diffs = <<>>
    /\ unchangedSets = <<>>
    /\ unchangedRanges = <<>>
    /\ varyingRanges = <<>>
    /\ varyingLists = <<>>
    /\ combined = <<>>
    /\ result = NoValue
    /\ error = "none"
    /\ rpc = "none"
    /\ responses = <<>>

\* if (!strings || strings.length === 0) throw
ThrowEmpty ==
    /\ UNCHANGED <<rpc, responses>>
    /\ pc = "start"
    /\ isEmptyInput(strings)
    /\ pc' = "threw"
    /\ error' = "EmptyInput"
    /\ UNCHANGED <<strings, diffs, unchangedSets, unchangedRanges, varyingRanges,
                   varyingLists, combined, result>>

\* if (strings.length === 1) return strings[0]
ReturnSingle ==
    /\ UNCHANGED <<rpc, responses>>
    /\ pc = "start"
    /\ ~isEmptyInput(strings)
    /\ isSingle(strings)
    /\ pc' = "returned"
    /\ result' = strings[1]
    /\ UNCHANGED <<strings, diffs, unchangedSets, unchangedRanges, varyingRanges,
                   varyingLists, combined, error>>

\* The loop that diffs strings[0] against every string.
ComputeDiffs ==
    /\ UNCHANGED <<rpc, responses>>
    /\ pc = "start"
    /\ ~isEmptyInput(strings)
    /\ ~isSingle(strings)
    /\ diffs' = diffsOf(strings)
    /\ pc' = "anchors"
    /\ UNCHANGED <<strings, unchangedSets, unchangedRanges, varyingRanges,
                   varyingLists, combined, result, error>>

\* The loop that fills unchangedSets, with its coverage check.
FindAnchors ==
    /\ UNCHANGED <<rpc, responses>>
    /\ pc = "anchors"
    /\ IF coverageFails(strings, diffs)
       THEN /\ pc' = "threw"
            /\ error' = "DiffCoverage"
            /\ UNCHANGED unchangedSets
       ELSE /\ pc' = "ranges"
            /\ unchangedSets' = unchangedSetsOf(diffs)
            /\ UNCHANGED error
    /\ UNCHANGED <<strings, diffs, unchangedRanges, varyingRanges, varyingLists,
                   combined, result>>

\* unchangedCommon, unchangedRanges and varyingRanges.
PartitionRanges ==
    /\ UNCHANGED <<rpc, responses>>
    /\ pc = "ranges"
    /\ unchangedRanges' = unchangedRangesOf(unchangedCommonOf(unchangedSets),
                                            Len(strings[1]))
    /\ varyingRanges' = varyingRangesOf(unchangedRanges', Len(strings[1]))
    /\ pc' = "extract"
    /\ UNCHANGED <<strings, diffs, unchangedSets, varyingLists, combined, result,
                   error>>

\* The loop that fills varyingLists.
ExtractVariants ==
    /\ UNCHANGED <<rpc, responses>>
    /\ pc = "extract"
    /\ LET vl == varyingListsOf(diffs, varyingRanges)
       IN  /\ varyingLists' = vl.lists
           /\ IF vl.threw
              THEN pc' = "threw" /\ error' = "TypeError"
              ELSE pc' = "compose" /\ UNCHANGED error
    /\ UNCHANGED <<strings, diffs, unchangedSets, unchangedRanges, varyingRanges,
                   combined, result>>

\* The composer loop and the return.
Compose ==
    /\ UNCHANGED <<rpc, responses>>
    /\ pc = "compose"
    /\ LET c == composeOf(strings[1], unchangedRanges, varyingRanges, varyingLists)
       IN  /\ combined' = c.combined
           /\ IF c.threw
              THEN pc' = "threw" /\ error' = "TypeError" /\ UNCHANGED result
              ELSE pc' = "returned" /\ result' = Flatten(c.combined)
                   /\ UNCHANGED error
    /\ UNCHANGED <<strings, diffs, unchangedSets, unchangedRanges, varyingRanges,
                   varyingLists>>

Next ==
    \/ ThrowEmpty
    \/ ReturnSingle
    \/ ComputeDiffs
    \/ FindAnchors
    \/ PartitionRanges
    \/ ExtractVariants
    \/ Compose

Spec == Init /\ [][Next]_vars

\* ---------------------------------------------------------------- postAlerts
\* One request to postAlerts (src/src/routes.js).  strings are the summaries
\* of the alerts of the request body, which share one status, so formatAlerts
\* merges them in one call; pc is "idle" until that call is made.  The secret,
\* the body, the environment and the room are inputs of the request and are
\* chosen when the code reads them.
\* alert.annotations.summary || alert.labels.alertname: an empty summary is
\* replaced by the name of the alert, so the summaries are not empty.
RequestSummaries ==
    {strs \in Inputs : \A k \in 1 .. Len(strs) : strs[k] # <<>>}

RouteInit ==
    /\ strings \in RequestSummaries
    /\ pc = "idle"
    /\ diffs = <<>>
    /\ unchangedSets = <<>>
    /\ unchangedRanges = <<>>
    /\ varyingRanges = <<>>
    /\ varyingLists = <<>>
    /\ combined = <<>>
    /\ result = NoValue
    /\ error = "none"
    /\ rpc = "received"
    /\ responses = <<>>

mergeVars == <<strings, pc, diffs, unchangedSets, unchangedRanges, varyingRanges,
               varyingLists, combined, result, error>>

\* res.status(code).end(), or res.json(body) after an optional res.status(code).
Respond(code, body) ==
    /\ responses' = Append(responses, [status |-> code, body |-> body])
    /\ rpc' = "done"
    /\ UNCHANGED mergeVars

\* if (!expectedSecret): status 500 and return.
RespondNotConfigured ==
    /\ rpc = "received"
    /\ Respond(500, "none")

\* if (!authorized): status 403 and return.
RespondForbidden ==
    /\ rpc = "received"
    /\ Respond(403, "none")

\* The secret is configured and the query or the header carries it.
Authorize ==
    /\ rpc = "received"
    /\ rpc' = "parse"
    /\ UNCHANGED <<mergeVars, responses>>

\* parseAlerts returns without a call of mergeStrings: the body has no
\* alerts field, RESPECT_GROUPBY is not "1" (formatAlert for each alert), or
\* the list of alerts is empty (formatAlerts finds no status).  What it
\* returns is an array, so the !alerts branch of postAlerts is never taken.
ParseWithoutMerge ==
    /\ rpc = "parse"
    /\ \E hasAlerts, respectGroupBy \in BOOLEAN :
          ~hasAlerts \/ ~respectGroupBy \/ strings = <<>>
    /\ rpc' = "room"
    /\ UNCHANGED <<mergeVars, responses>>

\* parseAlerts calls formatAlerts, which calls mergeStrings on the summaries
\* of the alerts of the status.
CallMergeStrings ==
    /\ rpc = "parse"
    /\ strings # <<>>
    /\ pc = "idle"
    /\ pc' = "start"
    /\ rpc' = "merging"
    /\ UNCHANGED <<strings, diffs, unchangedSets, unchangedRanges, varyingRanges,
                   varyingLists, combined, result, error, responses>>

\* mergeStrings returns, formatAlerts and parseAlerts return the message.
FormatReturns ==
    /\ rpc = "merging"
    /\ pc = "returned"
    /\ rpc' = "room"
    /\ UNCHANGED <<mergeVars, responses>>

\* mergeStrings throws: neither formatAlerts nor parseAlerts nor postAlerts
\* has a try around the call, so the error leaves postAlerts at line 37 and
\* the promise of the handler is rejected before any use of res.
FormatThrows ==
    /\ rpc = "merging"
    /\ pc = "threw"
    /\ rpc' = "rejected"
    /\ UNCHANGED <<mergeVars, responses>>

\* if (!roomId): the JSON result 'no rooms configured for this receiver'.
RespondNoRoom ==
    /\ rpc = "room"
    /\ Respond(200, "no rooms configured for this receiver")

\* A room is configured: the alerts are handed to client.sendAlert.
SendAlerts ==
    /\ rpc = "room"
    /\ rpc' = "sending"
    /\ UNCHANGED <<mergeVars, responses>>

\* await Promise.all(promises) fulfils: the JSON result 'ok'.
RespondOk ==
    /\ rpc = "sending"
    /\ Respond(200, "ok")

\* A sendAlert fails: the catch sets status 500 and sends the result 'error'.
RespondSendError ==
    /\ rpc = "sending"
    /\ Respond(500, "error")

\* formatAlerts passes at least one summary, so the empty-input throw of
\* mergeStrings is not among the steps of a request.
RouteNext ==
    \/ RespondNotConfigured
    \/ RespondForbidden
    \/ Authorize
    \/ ParseWithoutMerge
    \/ CallMergeStrings
    \/ ReturnSingle
    \/ ComputeDiffs
    \/ FindAnchors
    \/ PartitionRanges
    \/ ExtractVariants
    \/ Compose
    \/ FormatReturns
    \/ FormatThrows
    \/ RespondNoRoom
    \/ SendAlerts
    \/ RespondOk
    \/ RespondSendError

\* The handler runs on the event loop until it returns or throws.
RouteSpec == RouteInit /\ [][RouteNext]_vars /\ WF_vars(RouteNext)

\* ================================================================== claims
Terminated == pc \in {"returned", "threw"}

Abc == <<"a", "b", "c">>
Abd == <<"a", "b", "d">>

\* The two strings have the same tokens up to the last one, and their last
\* tokens are two different word-class tokens.
DifferInFinalWord(s, t) ==
    LET ts == segmentString(s)
        tt == segmentString(t)
        n  == Len(ts)
    IN  /\ n >= 1
        /\ Len(tt) = n
        /\ SubSeq(ts, 1, n - 1) = SubSeq(tt, 1, n - 1)
        /\ ts[n] # tt[n]
        /\ IsWordChar(ts[n][1])
        /\ IsWordChar(tt[n][1])

\* The common leading text followed by one bracket of the two last tokens.
PrefixThenBracket(s, t) ==
    LET ts == segmentString(s)
        tt == segmentString(t)
        n  == Len(ts)
        x  == ts[n]
        y  == tt[n]
    IN  Flatten(SubSeq(ts, 1, n - 1))
        \o <<"{">> \o (IF StrLess(x, y) THEN x ELSE y) \o <<",", " ">>
        \o (IF StrLess(x, y) THEN y ELSE x) \o <<"}">>

ErrorOnHosts ==
    <<"E","r","r","o","r"," ","o","n"," ",
      "{","h","o","s","t","-","1",","," ","h","o","s","t","-","2","}">>

\* C1: two strings that share their leading tokens and differ only in the
\* final word-class token merge to the shared text followed by one bracket
\* holding the two tokens in sorted order; "Error on host-1" and
\* "Error on host-2" merge to "Error on {host-1, host-2}".
C1_FinalWordBracket ==
    (Terminated /\ Len(strings) = 2 /\ DifferInFinalWord(strings[1], strings[2]))
        => /\ pc = "returned"
           /\ result = PrefixThenBracket(strings[1], strings[2])
           /\ (strings = <<ErrorOnHost1, ErrorOnHost2>> => result = ErrorOnHosts)

C1_Witness ==
    /\ pc = "returned"
    /\ strings = <<ErrorOnHost1, ErrorOnHost2>>
    /\ result = ErrorOnHosts

\* C2: a list of one string, the empty string included, returns that string.
C2_SingleUnchanged ==
    (Terminated /\ Len(strings) = 1) => (pc = "returned" /\ result = strings[1])

C2_Witness ==
    /\ pc = "returned"
    /\ strings = << <<>> >>
    /\ result = <<>>

\* C3: a list of two or more copies of one string has no varying ranges and
\* returns that string.
C3_IdenticalReturnsString ==
    (/\ Terminated
     /\ Len(strings) >= 2
     /\ \A k \in 1 .. Len(strings) : strings[k] = strings[1])
        => (pc = "returned" /\ result = strings[1] /\ varyingRanges = <<>>)

\* The variants of one bracket in the order and form in which the template
\* shows them.
RenderedVariants(varyingIdx) ==
    LET sorted == sortVariants(variantsOf(varyingLists, varyingIdx))
    IN  [i \in 1 .. Len(sorted) |->
            IF sorted[i] = Undefined THEN <<>> ELSE sorted[i]]

\* C4: in every bracket of the returned template the variants shown are
\* distinct and in sorted order.
C4_BracketsSortedDistinct ==
    (pc = "returned" /\ Len(strings) >= 2)
        => \A k \in 0 .. Len(varyingRanges) - 1 :
              LET r == RenderedVariants(k)
              IN  \A i, j \in 1 .. Len(r) : i < j => StrLess(r[i], r[j])

\* C5: the empty list throws the empty-input error before any diff is
\* computed and returns nothing.
C5_EmptyInputThrows ==
    /\ strings = <<>> =>
          /\ pc \in {"start", "threw"}
          /\ pc = "threw" => error = "EmptyInput"
          /\ diffs = <<>>
          /\ result = NoValue
    /\ error = "EmptyInput" => strings = <<>>

C5_Witness ==
    /\ strings = <<>>
    /\ pc = "threw"
    /\ error = "EmptyInput"
    /\ diffs = <<>>

\* C6: a call on a non-empty list returns a string or throws the
\* diff-coverage error, nothing else.
C6_OnlyCoverageError ==
    (Terminated /\ Len(strings) >= 1)
        => (pc = "returned" \/ error = "DiffCoverage")

\* The template with every bracket replaced by the variant of the i-th
\* string, following the composer's alternation.
RECURSIVE ReconstructLoop(_, _, _, _)
ReconstructLoop(i, onVarying, varyingIdx, unchangedIdx) ==
    IF onVarying
    THEN IF varyingIdx < Len(varyingRanges)
         THEN LET v == variantAt(varyingLists[i], varyingIdx)
              IN  (IF v = Undefined THEN <<>> ELSE v)
                  \o ReconstructLoop(i, FALSE, varyingIdx + 1, unchangedIdx)
         ELSE <<>>
    ELSE IF unchangedIdx < Len(unchangedRanges)
         THEN LET range == unchangedRanges[unchangedIdx + 1]
              IN  SubSeq(strings[1], range.start + 1, range.end)
                  \o ReconstructLoop(i, TRUE, varyingIdx, unchangedIdx + 1)
         ELSE <<>>

Reconstructed(i) == ReconstructLoop(i, varyingRanges[1].start = 0, 0, 0)

\* C7: when the call returns, putting the variants of one input string in
\* place of the brackets gives back that input string.
C7_ReconstructsEveryInput ==
    (pc = "returned" /\ Len(strings) >= 2)
        => \A i \in 1 .. Len(strings) : Reconstructed(i) = strings[i]

\* The lists that exchange two strings of the list other than the first.
\* Every reordering that keeps the first string is a chain of such exchanges,
\* and every list of the chain is an input of its own.
Reorderings(strs) ==
    { [k \in 1 .. Len(strs) |->
          IF k = a THEN strs[b] ELSE IF k = b THEN strs[a] ELSE strs[k]] :
        <<a, b>> \in { ab \in (2 .. Len(strs)) \X (2 .. Len(strs)) : ab[1] < ab[2] } }

\* C8: with the first string fixed, every order of the other strings gives
\* the same anchor ranges, varying ranges and template (or the same error).
C8_OrderIndependent ==
    Terminated =>
        \A strs \in Reorderings(strings) :
            mergeStrings(strs) =
                [outcome |-> IF pc = "returned" THEN "returned" ELSE error,
                 value |-> result,
                 unchangedRanges |-> unchangedRanges,
                 varyingRanges |-> varyingRanges]

C8_Witness ==
    /\ pc = "returned"
    /\ Len(strings) = 3
    /\ strings[2] # strings[3]
    /\ strings[1] # strings[2]
    /\ strings[1] # strings[3]
    /\ unchangedRanges # <<>>
    /\ varyingRanges # <<>>

\* C9 as stated: "abc" and "abd" merge to "ab{c, d}".
C9_Original ==
    (Terminated /\ strings = <<Abc, Abd>>)
        => (pc = "returned"
            /\ result = <<"a", "b", "{", "c", ",", " ", "d", "}">>)

\* C9: "abc" and "abd" are one word-class token each, the whole token is
\* varying, and they merge to "{abc, abd}".
C9_WholeTokenVaries ==
    (Terminated /\ strings = <<Abc, Abd>>)
        => /\ pc = "returned"
           /\ varyingRanges = <<[start |-> 0, end |-> 3]>>
           /\ result = <<"{", "a", "b", "c", ",", " ", "a", "b", "d", "}">>

C9_Witness ==
    /\ pc = "returned"
    /\ strings = <<Abc, Abd>>
    /\ unchangedRanges = <<>>
    /\ result = <<"{", "a", "b", "c", ",", " ", "a", "b", "d", "}">>

\* C10: after variant extraction every input string has one variant for each
\* varying range.
C10_OneVariantPerRange ==
    (pc \in {"compose", "returned"} /\ Len(strings) >= 2)
        => \A i \in 1 .. Len(strings) :
              Len(varyingLists[i]) = Len(varyingRanges)

\* The ranges have been computed.
Partitioned ==
    /\ Len(strings) >= 2
    /\ \/ pc \in {"extract", "compose", "returned"}
       \/ pc = "threw" /\ error = "TypeError"

\* The offsets of a half-open range.
OffsetsIn(range) == range.start .. range.end - 1

\* The ranges of a list are non-empty, lie in [0, length) and each starts
\* after the one before it ends.
Ascending(ranges, length) ==
    /\ \A i \in 1 .. Len(ranges) :
          0 <= ranges[i].start /\ ranges[i].start < ranges[i].end
                               /\ ranges[i].end <= length
    /\ \A i \in 1 .. Len(ranges) - 1 : ranges[i].end < ranges[i + 1].start

\* Every range of the first list starts at 0 or where a range of the second
\* list ends, and ends at length or where a range of the second list starts.
Between(ranges, others, length) ==
    \A i \in 1 .. Len(ranges) :
        /\ ranges[i].start = 0
              \/ \E j \in 1 .. Len(others) : others[j].end = ranges[i].start
        /\ ranges[i].end = length
              \/ \E j \in 1 .. Len(others) : others[j].start = ranges[i].end

\* C11: the anchor ranges are non-empty half-open intervals of the reference
\* string, disjoint and in increasing order, every offset in them is unchanged
\* in every diff, the varying ranges are exactly the gaps between them, and
\* the two kinds of range alternate and cover every offset of the reference
\* string exactly once.
C11_RangesPartitionReference ==
    Partitioned =>
        LET length == Len(strings[1])
        IN  /\ Ascending(unchangedRanges, length)
            /\ Ascending(varyingRanges, length)
            /\ \A i \in 1 .. Len(unchangedRanges) :
                  \A o \in OffsetsIn(unchangedRanges[i]) :
                      \A k \in 1 .. Len(unchangedSets) : o \in unchangedSets[k]
            /\ \A i \in 1 .. Len(varyingRanges) :
                  \A o \in OffsetsIn(varyingRanges[i]) :
                      \E k \in 1 .. Len(unchangedSets) : o \notin unchangedSets[k]
            /\ Between(unchangedRanges, varyingRanges, length)
            /\ Between(varyingRanges, unchangedRanges, length)
            /\ \A o \in 0 .. length - 1 :
                  Cardinality({i \in 1 .. Len(unchangedRanges) :
                                  o \in OffsetsIn(unchangedRanges[i])})
                  + Cardinality({i \in 1 .. Len(varyingRanges) :
                                    o \in OffsetsIn(varyingRanges[i])}) = 1

C11_Witness ==
    /\ pc = "returned"
    /\ Len(unchangedRanges) = 2
    /\ Len(varyingRanges) = 1
    /\ varyingRanges[1].start = unchangedRanges[1].end
    /\ varyingRanges[1].end = unchangedRanges[2].start

\* The values of the edits of a diff that are not added, or not removed,
\* joined in order.
RECURSIVE EditText(_, _)
EditText(diff, skipAdded) ==
    IF diff = <<>> THEN <<>>
    ELSE (IF (skipAdded /\ Head(diff).added) \/ (~skipAdded /\ Head(diff).removed)
          THEN <<>> ELSE Head(diff).value)
         \o EditText(Tail(diff), skipAdded)

\* C12: the edits of every diff that are not added join to the reference
\* string and those that are not removed join to the candidate string, so ptr
\* ends at the length of the reference string and the diff-coverage error is
\* never thrown.
C12_DiffCoversReference ==
    /\ error # "DiffCoverage"
    /\ \A k \in 1 .. Len(diffs) :
          /\ EditText(diffs[k], TRUE) = strings[1]
          /\ EditText(diffs[k], FALSE) = strings[k]
          /\ unchangedOf(diffs[k]).ptr = Len(strings[1])

C12_Witness ==
    /\ pc = "ranges"
    /\ error = "none"
    /\ \E k \in 1 .. Len(diffs) :
          /\ \E e \in 1 .. Len(diffs[k]) : diffs[k][e].added
          /\ \E e \in 1 .. Len(diffs[k]) : diffs[k][e].removed
          /\ \E e \in 1 .. Len(diffs[k]) :
                ~diffs[k][e].added /\ ~diffs[k][e].removed

\* postAlerts has ended: it returned, or its promise was rejected.
HandlerEnded == rpc \in {"done", "rejected"}

\* C13: a request handled by postAlerts gets exactly one response, also when
\* mergeStrings throws while parseAlerts formats the alerts.
C13_ExactlyOneResponse ==
    /\ Len(responses) <= 1
    /\ HandlerEnded => Len(responses) = 1

====
